---- MODULE Spec2Model ----
(***************************************************************************)
(* E2E-Mailbox: the IntegrationMailbox facade (src/src/index.ts), its two  *)
(* adapters (DeveloperMailService, GuerrillaMailService) and the upstream  *)
(* mailbox services they talk to.  Two snapshots of the facade are kept in *)
(* the sources; `era` selects which one a behaviour runs:                  *)
(*   "earlier" : index.ts 1-151 with developerMailService.ts 142-310       *)
(*   "current" : index.ts 153-302 with the DeveloperMailService of         *)
(*               unnamed/part_004                                          *)
(* GuerrillaMailService (guerrillaMailService.ts 1-127) serves both.       *)
(* Every await of the code is a step boundary: an HTTP request is issued   *)
(* by one action and completed by another.                                 *)
(***************************************************************************)
EXTENDS Integers, Sequences, FiniteSets, TLC

\* ---------------------------------------------------------------- bounds
MaxCalls == 2        \* facade calls made by the caller in one behaviour
MaxSessions == 2     \* mailboxes an upstream provider creates
MaxMsgs == 2         \* messages delivered to one provider
MaxLimit == 11       \* largest maxLimitInSec handed to waitForEmail
MaxPieces == 3       \* pieces a mail body handed to extractLinksFromEmail is made of
Max502 == 4          \* 502 answers the upstream gives during one facade call

\* ------------------------------------------------------ program constants
INCREMENT_CURRENT == 5000
INCREMENT_EARLIER == 7500
MAX_RETRY == 3
RETRY_SLEEP_MS == 3000

Providers == {"DEVELOPER", "GUERRILLA"}
Eras == {"earlier", "current"}

\* subjects are strings, kept as sequences of characters
SubjWel == <<"W", "e", "l">>
SubjWe == <<"W", "e">>
SubjHi == <<"H", "i">>
Subjects == {SubjWel, SubjHi}
SubjectLines == {SubjWe, SubjHi}
MaxLimits == {-1, 0, 4, MaxLimit}

\* String.prototype.includes: t occurs in s as a contiguous substring
Includes(s, t) ==
    \E i \in 0..(Len(s) - Len(t)) : SubSeq(s, i + 1, i + Len(t)) = t

\* the literals of extractLinksFromEmail (index.ts 291-297, 140-146)
HrefAttr == <<"h", "r", "e", "f", "=", "\"">>
Quote == <<"\"">>
Http == <<"h", "t", "t", "p">>
Www == <<"w", "w", "w", ".">>

\* const website = 'https://example.com' (developermail.test.ts 145)
Website == <<"h", "t", "t", "p", "s", ":", "/", "/", "e", "x", "a", "m", "p", "l", "e",
             ".", "c", "o", "m">>

\* an anchor as the test appends it: `<a href="${website}" />`
\* (developermail.test.ts 147)
Anchor(url) == <<"<", "a", " ">> \o HrefAttr \o url \o Quote \o <<" ", "/", ">">>

\* some text of a mail body
Greeting == <<"H", "i", " ">>

\* the body of the test's email
TestBody == Greeting \o Anchor(Website)

WwwSite == <<"w", "w", "w", ".", "b", ".", "i", "o">>

\* what mail bodies are made of: anchors, URLs written as plain text, other
\* text, and the two delimiters on their own
Pieces == {Anchor(Website), Anchor(WwwSite), Website, WwwSite, Greeting, HrefAttr, Quote}

\* the bodies made of at most n pieces
RECURSIVE BodiesOf(_)
BodiesOf(n) ==
    IF n = 0 THEN {<<>>}
    ELSE BodiesOf(n - 1) \cup {b \o p : b \in BodiesOf(n - 1), p \in Pieces}

Digits == <<"1", "2", "3", "4", "5", "6", "7", "8", "9">>

\* the mailbox name / user the upstream hands out for its n-th session
UpName(n) == <<"m", Digits[n]>>

\* results of a call: kind is "value", "undefined" or "raise"; val is a sequence
NoResult == [kind |-> "none", val |-> <<>>]
Value(v) == [kind |-> "value", val |-> v]
Undefined == [kind |-> "undefined", val |-> <<>>]
Raise(e) == [kind |-> "raise", val |-> <<e>>]

noMailboxError == "no mailbox set"

NoReq == [p |-> "none", kind |-> "none", tok |-> 0, name |-> 0, arg |-> 0, ids |-> <<>>]

OtherProviderSame(p) == p

\* index.ts 188-190 / 39-41: the opposite provider
OtherProvider(p) == IF p = "DEVELOPER" THEN "GUERRILLA" ELSE "DEVELOPER"

VARIABLES
    era,            \* which snapshot of the sources runs
    active,         \* IntegrationMailbox.mailbox, by its PROVIDER
    token,          \* DeveloperMailService.token        (0 is '')
    mailboxName,    \* DeveloperMailService.mailboxName  (0 is '')
    sidToken,       \* GuerrillaMailService.sidToken     (0 is '')
    upSession,      \* upstream: number of the latest mailbox of each provider
    live,           \* upstream: that mailbox exists
    inbox,          \* upstream: its messages, in list order
    nextId,         \* upstream: next message id of each provider
    pc,             \* where the running facade call is suspended
    fop,            \* the running facade operation and its arguments
    aop,            \* the running adapter operation
    http,           \* the HTTP request in flight
    isRetry,        \* GuerrillaMailService.sendRequest's isRetry
    ares,           \* what the adapter operation returned
    fres,           \* what the last facade call returned
    attempt,        \* createEmailAddress: 1 = primary, 2 = after failover
    wl,             \* waitForEmail locals
    log,            \* what the running facade call has done so far
    nCalls,         \* facade calls started
    everCreated,    \* some createEmailAddress of this facade returned an address
    deleted,        \* the id the caller's last completed call reported deleted (0: none)
    body,           \* mail_body of the email the caller hands to extractLinksFromEmail
    producer,       \* the adapter that produced the address of the latest
                    \* createEmailAddress ("none" when it produced none) and
                    \* whether that took the switch to the other provider
    inFlight,       \* HTTP requests of this facade issued and not yet completed
    hung,           \* the upstream will never answer the request in flight
    cc,             \* a createEmailAddress call of a second caller that
                    \* overlaps the running call on the same facade
    other           \* a second IntegrationMailbox instance of the program

vars == <<era, active, token, mailboxName, sidToken, upSession, live, inbox,
          nextId, pc, fop, aop, http, isRetry, ares, fres, attempt, wl, log,
          nCalls, everCreated, deleted, body, producer, inFlight,
          hung, cc, other>>

adapterVars == <<token, mailboxName, sidToken>>
upVars == <<upSession, live, inbox, nextId>>

NoWait == [subjectLine |-> <<>>, maxLimitInMs |-> 0, elapsedTime |-> 0,
           hasEmailArrived |-> FALSE, found |-> <<>>, emails |-> <<>>,
           listings |-> 0, seenBeforeLimit |-> FALSE]

NoOp == [op |-> "none", arg |-> 0, subject |-> <<>>]

NoProducer == [p |-> "none", failover |-> FALSE]

\* no second facade has been constructed
NoFacade == [chosen |-> "none", active |-> "none", token |-> 0,
             mailboxName |-> 0, sidToken |-> 0, attempt |-> 0]

NoOverlap == [pc |-> "idle", req |-> NoReq, isRetry |-> 0, attempt |-> 0,
              res |-> NoResult]

\* index.ts 174-176 / 24-26: the constructor picks the active adapter; the
\* adapters start with empty credentials (part_004 53-54, guerrilla 8)
Init ==
    /\ era \in Eras
    /\ active \in Providers
    /\ token = 0 /\ mailboxName = 0 /\ sidToken = 0
    /\ upSession = [p \in Providers |-> 0]
    /\ live = [p \in Providers |-> FALSE]
    /\ inbox = [p \in Providers |-> <<>>]
    /\ nextId = [p \in Providers |-> 1]
    /\ pc = "idle"
    /\ fop = NoOp
    /\ aop = "none"
    /\ http = NoReq
    /\ isRetry = 0
    /\ ares = NoResult
    /\ fres = NoResult
    /\ attempt = 0
    /\ wl = NoWait
    /\ log = <<>>
    /\ nCalls = 0
    /\ everCreated = FALSE
    /\ deleted = 0
    /\ body = TestBody
    /\ producer = NoProducer
    /\ inFlight = 0
    /\ hung = FALSE
    /\ cc = NoOverlap
    /\ other = NoFacade

\* ------------------------------------------------------------------ log
Ev(t, p, op, x) == [t |-> t, p |-> p, op |-> op, x |-> x]

Count(lg, t, p, op) ==
    Cardinality({i \in 1..Len(lg) : lg[i].t = t /\ lg[i].p = p /\ lg[i].op = op})

CountT(lg, t) == Cardinality({i \in 1..Len(lg) : lg[i].t = t})

CountOp(lg, t, op) ==
    Cardinality({i \in 1..Len(lg) : lg[i].t = t /\ lg[i].op = op})

\* ------------------------------------------------------------- upstream
\* a request addresses the provider's existing mailbox with its credential
Valid(r) ==
    /\ live[r.p]
    /\ r.tok = upSession[r.p]
    /\ r.p = "DEVELOPER" => r.name = upSession[r.p]

HasId(box, id) == \E i \in 1..Len(box) : box[i].mail_id = id

MsgOf(box, id) == box[CHOOSE i \in 1..Len(box) : box[i].mail_id = id]

RECURSIVE Without(_, _)
Without(box, id) ==
    IF box = <<>> THEN <<>>
    ELSE IF Head(box).mail_id = id THEN Without(Tail(box), id)
    ELSE <<Head(box)>> \o Without(Tail(box), id)

RECURSIVE IdsOf(_)
IdsOf(box) == IF box = <<>> THEN <<>> ELSE <<Head(box).mail_id>> \o IdsOf(Tail(box))

RECURSIVE Select(_, _)
Select(box, ids) ==
    IF box = <<>> THEN <<>>
    ELSE IF \E i \in 1..Len(ids) : ids[i] = Head(box).mail_id
         THEN <<Head(box)>> \o Select(Tail(box), ids)
         ELSE Select(Tail(box), ids)

\* can the upstream answer request r with a success status
CanSucceed(r) ==
    CASE r.kind = "create" ->
            \/ (r.p = "GUERRILLA" /\ Valid(r))
            \/ upSession[r.p] < MaxSessions
      [] r.kind \in {"fetch", "delete"} -> Valid(r) /\ HasId(inbox[r.p], r.arg)
      [] r.kind = "send" -> Valid(r) /\ nextId[r.p] <= MaxMsgs
      [] OTHER -> Valid(r)

\* the session a successful creation answers with
CreatedSession(r) ==
    IF r.p = "GUERRILLA" /\ Valid(r) THEN upSession[r.p] ELSE upSession[r.p] + 1

\* the upstream state after it served request r
UpSessionAfter(r) ==
    IF r.kind = "create" THEN [upSession EXCEPT ![r.p] = CreatedSession(r)]
    ELSE upSession

UpLiveAfter(r) ==
    CASE r.kind = "create" -> [live EXCEPT ![r.p] = TRUE]
      [] r.kind = "forget" /\ r.p = "DEVELOPER" -> [live EXCEPT ![r.p] = FALSE]
      [] OTHER -> live

UpInboxAfter(r) ==
    CASE r.kind = "create" ->
            IF CreatedSession(r) = upSession[r.p] THEN inbox
            ELSE [inbox EXCEPT ![r.p] = <<>>]
      [] r.kind = "forget" -> [inbox EXCEPT ![r.p] = <<>>]
      [] r.kind = "delete" -> [inbox EXCEPT ![r.p] = Without(inbox[r.p], r.arg)]
      [] r.kind = "send" ->
            [inbox EXCEPT ![r.p] =
                Append(inbox[r.p], [mail_id |-> nextId[r.p], mail_subject |-> fop.subject])]
      [] OTHER -> inbox

UpNextIdAfter(r) ==
    IF r.kind = "send" THEN [nextId EXCEPT ![r.p] = nextId[r.p] + 1] ELSE nextId

Served(r) ==
    /\ upSession' = UpSessionAfter(r)
    /\ live' = UpLiveAfter(r)
    /\ inbox' = UpInboxAfter(r)
    /\ nextId' = UpNextIdAfter(r)

\* a message arrives in the mailbox of provider p, between two calls of the
\* caller or while waitForEmail sleeps (an arrival while a request is in
\* flight looks to the caller like one just before or just after it)
Deliver ==
    \E p \in Providers, s \in Subjects :
        /\ pc \in {"idle", "wsleep"}
        /\ live[p]
        /\ nextId[p] <= MaxMsgs
        /\ inbox' = [inbox EXCEPT ![p] =
                        Append(inbox[p], [mail_id |-> nextId[p], mail_subject |-> s])]
        /\ nextId' = [nextId EXCEPT ![p] = nextId[p] + 1]
        /\ wl' = IF fop.op = "wait" /\ p = active
                    /\ wl.elapsedTime < wl.maxLimitInMs
                    /\ Includes(s, wl.subjectLine)
                 THEN [wl EXCEPT !.seenBeforeLimit = TRUE]
                 ELSE wl
        /\ UNCHANGED <<era, other, cc, inFlight, hung, body, producer,
                       deleted, active, adapterVars, upSession, live, pc, fop,
                       aop, http, isRetry, ares, fres, attempt, log, nCalls,
                       everCreated>>


RequestKeepsFirst(p, kind, arg, ids) ==
    IF kind = "msgs"
    THEN [p |-> p, kind |-> kind, tok |-> http.tok, name |-> http.name,
          arg |-> arg, ids |-> ids]
    ELSE IF p = "DEVELOPER"
    THEN [p |-> p, kind |-> kind, tok |-> token,
          name |-> IF kind = "create" THEN 0 ELSE mailboxName,
          arg |-> arg, ids |-> ids]
    ELSE [p |-> p, kind |-> kind, tok |-> sidToken, name |-> 0,
          arg |-> arg, ids |-> ids]

\* ------------------------------------------------------------- adapters
RequestNoCredential(p, kind, arg, ids) ==
    [p |-> p, kind |-> kind, tok |-> 0, name |-> 0, arg |-> arg, ids |-> ids]

RequestFirstId(p, kind, arg, ids) ==
    IF p = "DEVELOPER"
    THEN [p |-> p, kind |-> kind, tok |-> token,
          name |-> IF kind = "create" THEN 0 ELSE mailboxName,
          arg |-> IF kind = "delete" THEN 1 ELSE arg, ids |-> ids]
    ELSE [p |-> p, kind |-> kind, tok |-> sidToken, name |-> 0,
          arg |-> IF kind = "delete" THEN 1 ELSE arg, ids |-> ids]

\* the request an adapter sends: DeveloperMail puts its token in the
\* X-MailboxToken header and its mailbox name in the path (part_004 66-73,
\* 127, 133, 158, 169, 183, 193); GuerrillaMail adds sid_token to the query
\* (guerrilla 14-17)
Request(p, kind, arg, ids) ==
    IF p = "DEVELOPER"
    THEN [p |-> p, kind |-> kind, tok |-> token,
          name |-> IF kind = "create" THEN 0 ELSE mailboxName,
          arg |-> arg, ids |-> ids]
    ELSE [p |-> p, kind |-> kind, tok |-> sidToken, name |-> 0,
          arg |-> arg, ids |-> ids]

\* the first request of an adapter operation
FirstKind(p, op) == IF p = "DEVELOPER" /\ op = "list" THEN "ids" ELSE op

\* GuerrillaMailService (guerrilla 5-125) has no sendSelfMail method
HasMethod(p, op) == ~(p = "GUERRILLA" /\ op = "send")

\* the facade calls this.mailbox.<op>(arg): the adapter runs up to its first
\* await, i.e. until its first HTTP request is in flight
StartAdapter(p, op, arg, lg) ==
    IF HasMethod(p, op)
    THEN /\ aop' = op
         /\ http' = Request(p, FirstKind(p, op), arg, <<>>)
         /\ isRetry' = 0
         /\ pc' = "http"
         /\ ares' = NoResult
         /\ log' = lg \o <<Ev("acall", p, op, arg), Ev("http", p, FirstKind(p, op), arg)>>
         /\ inFlight' = inFlight + 1
         /\ UNCHANGED hung
    ELSE /\ aop' = op
         /\ http' = NoReq
         /\ isRetry' = 0
         /\ pc' = "ret"
         /\ ares' = Raise("TypeError")
         /\ log' = lg \o <<Ev("acall", p, op, arg)>>
         /\ UNCHANGED <<inFlight, hung>>

\* the adapter operation settles: its caller resumes next
\* (the log notes a request that failed as "herr", with 502 when the error
\* carries '502 Bad Gateway' in its data and 0 otherwise, and the return as
\* "aret", with 1 for a value, 0 for undefined and -1 for a rejection)
TimeoutSet == TRUE

\* axios is called without a `timeout` option (guerrilla 17, part_004
\* 71-73; its default is no timeout), so nothing but an answer or a
\* network error settles a request
HasTimeout == FALSE

\* may the request in flight settle now?  ok: with a response
CanSettle(ok) == IF hung THEN HasTimeout /\ ~ok ELSE TRUE

NotAwaited(n) == n

\* `await axios.get(...)`, `await this.sendRequest(...)` (guerrilla 17,
\* 41-120; part_004 111-194): the code after the await runs once the
\* request it waits for has completed, so that request is no longer in flight
Awaited(n) == n - 1

RetCode(r) == IF r.kind = "value" THEN 1 ELSE IF r.kind = "undefined" THEN 0 ELSE -1

AdapterSettles(r, evs) ==
    /\ ares' = r
    /\ pc' = "ret"
    /\ http' = NoReq
    /\ isRetry' = 0
    /\ log' = log \o evs \o <<Ev("aret", http.p, aop, RetCode(r))>>
    /\ inFlight' = Awaited(inFlight)
    /\ hung' = FALSE

AdapterReturns(r, ok) ==
    AdapterSettles(r, IF ok THEN <<>> ELSE <<Ev("herr", http.p, http.kind, 0)>>)

\* DeveloperMailService.sendRequest.  current (part_004 63-77): the axios
\* promise is returned from inside the try without being awaited, so a
\* rejection passes the catch and rejects sendRequest itself.  earlier
\* (developerMailService.ts 173-188): the request is awaited inside the try
\* and both paths of the catch yield undefined.
DevSendRequest(ok) ==
    IF ok THEN "resp"
    ELSE IF era = "current" THEN "reject" ELSE "undef"

DevAddressNoAt(name) == name \o <<"developermail.com">>

\* `${creationResponse.result.name}@${EMAIL_DOMAIN}` (part_004 114-117)
DevAddress(name) == name \o <<"@", "developermail.com">>

\* email_addr of the GuerrillaMail creation response for session n
GuerrillaAddress(n) == UpName(n) \o <<"@", "guerrillamailblock.com">>

\* String.prototype.includes('@') on an address
ContainsAt(addr) == \E i \in 1..Len(addr) : addr[i] = "@"

DevCredentialsTokenOnly(n) == <<n, mailboxName>>

\* `this.token = creationResponse.result.token;
\*  this.mailboxName = creationResponse.result.name;` (part_004 113-114,
\* developerMailService.ts 219-220): both fields are taken from the one
\* creation response n, in two consecutive statements with no await between
DevCredentials(n) == <<n, n>>

\* DeveloperMailService.createEmailAddress (part_004 110-118,
\* developerMailService.ts 216-224) after its request settles
DevCreateResume ==
    /\ pc = "http" /\ http.p = "DEVELOPER" /\ http.kind = "create"
    /\ \E ok \in BOOLEAN :
        /\ ok => CanSucceed(http)
        /\ CanSettle(ok)
        /\ LET sr == DevSendRequest(ok)
               n == CreatedSession(http)
           IN  CASE sr = "resp" ->
                       /\ Served(http)
                       /\ token' = DevCredentials(n)[1]
                       /\ mailboxName' = DevCredentials(n)[2]
                       /\ AdapterReturns(Value(DevAddress(UpName(n))), ok)
                 [] sr = "undef" ->
                       /\ UNCHANGED <<upVars, token, mailboxName>>
                       /\ AdapterReturns(IF era = "current"
                                         THEN Raise("Could not create email address")
                                         ELSE Undefined, ok)
                 [] OTHER ->
                       /\ UNCHANGED <<upVars, token, mailboxName>>
                       /\ AdapterReturns(Raise("axios"), ok)
    /\ UNCHANGED <<era, other, cc, body, producer, deleted, active, sidToken,
                   fop, aop, fres, attempt, wl, nCalls, everCreated>>

\* DeveloperMailService.fetchEmailList up to its second request
\* (part_004 124-134, developerMailService.ts 230-240)
DevListIds ==
    /\ pc = "http" /\ http.p = "DEVELOPER" /\ http.kind = "ids"
    /\ \E ok \in BOOLEAN :
        /\ ok => CanSucceed(http)
        /\ CanSettle(ok)
        /\ LET sr == DevSendRequest(ok)
           IN  CASE sr = "resp" ->
                       /\ http' = Request("DEVELOPER", "msgs", 0, IdsOf(inbox["DEVELOPER"]))
                       /\ log' = Append(log, Ev("http", "DEVELOPER", "msgs", 0))
                       /\ inFlight' = Awaited(inFlight) + 1
                       /\ hung' = FALSE
                       /\ UNCHANGED <<pc, ares, isRetry>>
                 [] sr = "undef" -> AdapterReturns(Value(<<>>), ok)
                 [] OTHER -> AdapterReturns(Raise("axios"), ok)
    /\ UNCHANGED <<era, other, cc, body, producer, deleted, active,
                   adapterVars, upVars, fop, aop, fres, attempt, wl, nCalls,
                   everCreated>>

\* convertMimeToEmailResponse (part_004 85-101): key becomes mail_id, the
\* parsed subject becomes mail_subject
ConvertMime(m) == [mail_id |-> m.mail_id, mail_subject |-> m.mail_subject]

RECURSIVE ConvertAll(_)
ConvertAll(ms) ==
    IF ms = <<>> THEN <<>> ELSE <<ConvertMime(Head(ms))>> \o ConvertAll(Tail(ms))

\* DeveloperMailService.fetchEmailList after its second request
\* (part_004 135-147, developerMailService.ts 241-251)
DevListMsgs ==
    /\ pc = "http" /\ http.p = "DEVELOPER" /\ http.kind = "msgs"
    /\ \E ok \in BOOLEAN :
        /\ ok => CanSucceed(http)
        /\ CanSettle(ok)
        /\ LET sr == DevSendRequest(ok)
           IN  CASE sr = "resp" ->
                       AdapterReturns(Value(ConvertAll(Select(inbox["DEVELOPER"], http.ids))), ok)
                 [] sr = "undef" -> AdapterReturns(Value(<<>>), ok)
                 [] OTHER -> AdapterReturns(Raise("axios"), ok)
    /\ UNCHANGED <<era, other, cc, body, producer, deleted, active,
                   adapterVars, upVars, fop, aop, fres, attempt, wl, nCalls,
                   everCreated>>

\* DeveloperMailService.fetchEmailById (part_004 181-188,
\* developerMailService.ts 289-297)
DevFetchResume ==
    /\ pc = "http" /\ http.p = "DEVELOPER" /\ http.kind = "fetch"
    /\ \E ok \in BOOLEAN :
        /\ ok => CanSucceed(http)
        /\ CanSettle(ok)
        /\ LET sr == DevSendRequest(ok)
           IN  CASE sr = "resp" ->
                       AdapterReturns(Value(<<ConvertMime(MsgOf(inbox["DEVELOPER"], http.arg))>>), ok)
                 [] sr = "undef" ->
                       AdapterReturns(IF era = "current"
                                      THEN Raise("Could not find email")
                                      ELSE Undefined, ok)
                 [] OTHER -> AdapterReturns(Raise("axios"), ok)
    /\ UNCHANGED <<era, other, cc, body, producer, deleted, active,
                   adapterVars, upVars, fop, aop, fres, attempt, wl, nCalls,
                   everCreated>>

\* DeveloperMailService.deleteEmailById, forgetEmailAddress and sendSelfMail
\* (part_004 157-172, 190-196; developerMailService.ts 262-280, 299-307):
\* the upstream's boolean `result`, false/undefined when there is no response
DevBoolResume ==
    /\ pc = "http" /\ http.p = "DEVELOPER" /\ http.kind \in {"delete", "forget", "send"}
    /\ \E ok \in BOOLEAN :
        /\ ok => CanSucceed(http)
        /\ CanSettle(ok)
        /\ LET sr == DevSendRequest(ok)
           IN  CASE sr = "resp" ->
                       /\ Served(http)
                       /\ AdapterReturns(Value(<<TRUE>>), ok)
                 [] sr = "undef" ->
                       /\ UNCHANGED upVars
                       /\ AdapterReturns(IF era = "earlier" /\ http.kind = "forget"
                                         THEN Undefined
                                         ELSE Value(<<FALSE>>), ok)
                 [] OTHER ->
                       /\ UNCHANGED upVars
                       /\ AdapterReturns(Raise("axios"), ok)
    /\ UNCHANGED <<era, other, cc, body, producer, deleted, active,
                   adapterVars, fop, aop, fres, attempt, wl, nCalls,
                   everCreated>>

\* what the failed axios.get carries in error.data
ErrorData == {"none", "502 Bad Gateway", "other"}

RetriesAnyError(errData, retry) == retry < MAX_RETRY

\* GuerrillaMailService.sendRequest's catch (guerrilla 19-28): retry after a
\* 502 while isRetry < 3, otherwise fall through to undefined
Retries(errData, retry) == errData = "502 Bad Gateway" /\ retry < MAX_RETRY

\* the failed GuerrillaMail request as the log notes it
GuerrillaFailure(d) ==
    Ev("herr", "GUERRILLA", http.kind, IF d = "502 Bad Gateway" THEN 502 ELSE 0)

\* the value a GuerrillaMail adapter operation returns for an upstream
\* response (guerrilla 43-45, 57-59, 93-94, 106-108, 122-123)
GuerrillaValue(r, truthy) ==
    CASE r.kind = "create" -> Value(GuerrillaAddress(CreatedSession(r)))
      [] r.kind = "list" -> Value(inbox["GUERRILLA"])
      [] r.kind = "fetch" -> Value(<<MsgOf(inbox["GUERRILLA"], r.arg)>>)
      [] r.kind = "delete" -> Value(<<truthy>>)
      [] OTHER -> Value(<<TRUE>>)

\* what it returns when sendRequest gave undefined (guerrilla 42, 56, 92,
\* 105, 121)
GuerrillaNoResponse(r) == IF r.kind = "list" THEN Value(<<>>) ELSE Undefined

SidTokenClearedByForget(r) ==
    CASE r.kind = "create" -> CreatedSession(r)
      [] r.kind = "forget" -> 0
      [] OTHER -> sidToken

\* this.sidToken once the response to request r has been handled: only
\* createEmailAddress assigns it (guerrilla 44)
SidTokenAfter(r) == IF r.kind = "create" THEN CreatedSession(r) ELSE sidToken

\* a GuerrillaMail request settles with a response
GuerrillaResponse ==
    /\ pc = "http" /\ http.p = "GUERRILLA"
    /\ CanSucceed(http)
    /\ CanSettle(TRUE)
    /\ \E truthy \in BOOLEAN :
        /\ (http.kind # "delete") => truthy
        /\ AdapterReturns(GuerrillaValue(http, truthy), TRUE)
    /\ Served(http)
    /\ sidToken' = SidTokenAfter(http)
    /\ UNCHANGED <<era, other, cc, body, producer, deleted, active, token,
                   mailboxName, fop, aop, fres, attempt, wl, nCalls,
                   everCreated>>

\* the 502 answers the running facade call has met so far
Gateway502s(lg) == Cardinality({i \in 1..Len(lg) : lg[i].t = "herr" /\ lg[i].x = 502})

\* a GuerrillaMail request fails: sendRequest's catch runs
GuerrillaError ==
    /\ pc = "http" /\ http.p = "GUERRILLA"
    /\ CanSettle(FALSE)
    /\ \E d \in ErrorData :
        /\ d = "502 Bad Gateway" => Gateway502s(log) < Max502
        /\ IF d # "none" /\ Retries(d, isRetry)
           THEN /\ pc' = "gsleep"
                /\ log' = log \o <<GuerrillaFailure(d),
                                  Ev("sleep", "GUERRILLA", "sendRequest", RETRY_SLEEP_MS)>>
                /\ inFlight' = Awaited(inFlight)
                /\ hung' = FALSE
                /\ UNCHANGED <<http, isRetry, ares>>
           ELSE AdapterSettles(GuerrillaNoResponse(http), <<GuerrillaFailure(d)>>)
    /\ UNCHANGED <<era, other, cc, body, producer, deleted, active,
                   adapterVars, upVars, fop, aop, fres, attempt, wl, nCalls,
                   everCreated>>

\* the 3 second sleep is over: sendRequest(payload, isRetry + 1)
\* (guerrilla 24-26); sid_token is read again from the adapter
GuerrillaRetry ==
    /\ pc = "gsleep"
    /\ pc' = "http"
    /\ isRetry' = isRetry + 1
    /\ http' = Request("GUERRILLA", http.kind, http.arg, <<>>)
    /\ log' = Append(log, Ev("http", "GUERRILLA", http.kind, http.arg))
    /\ inFlight' = inFlight + 1
    /\ UNCHANGED hung
    /\ UNCHANGED <<era, other, cc, body, producer, deleted, active,
                   adapterVars, upVars, fop, aop, ares, fres, attempt, wl,
                   nCalls, everCreated>>


\* --------------------------------------------------------------- facade
\* `!this.mailbox` of the earlier facade (index.ts 35, 54, 66, 77, 90, 102):
\* the constructor always stores one of the two adapters
MailboxIsSet == active \in Providers

\* the guard of the earlier facade raises before anything else is done
GuardRaises == era = "earlier" /\ ~MailboxIsSet

Begin(op, arg, subject) ==
    /\ pc = "idle"
    /\ nCalls < MaxCalls
    /\ nCalls' = nCalls + 1
    /\ fop' = [op |-> op, arg |-> arg, subject |-> subject]

\* the facade call settles with result r
Settle(r) ==
    /\ fres' = r
    /\ pc' = "done"
    /\ aop' = "none"
    /\ ares' = NoResult
    /\ UNCHANGED <<inFlight, hung>>

\* the caller takes the result of the settled call; the locals of the call
\* are gone
Return ==
    /\ pc = "done"
    /\ pc' = "idle"
    /\ fop' = NoOp
    /\ fres' = NoResult
    /\ attempt' = 0
    /\ wl' = NoWait
    /\ log' = <<>>
    /\ deleted' = IF fop.op = "delete" /\ fres.kind = "value" /\ fres.val = <<TRUE>>
                  THEN fop.arg
                  ELSE 0
    /\ UNCHANGED <<era, other, cc, inFlight, hung, body, producer, active,
                   adapterVars, upVars, aop, http, isRetry, ares, nCalls,
                   everCreated>>

DelegateToOther(op, arg, subject) ==
    /\ Begin(op, arg, subject)
    /\ StartAdapter(OtherProvider(active), op, arg, <<>>)
    /\ fres' = NoResult
    /\ wl' = NoWait
    /\ UNCHANGED <<era, other, cc, body, producer, deleted, active,
                   adapterVars, upVars, attempt, everCreated>>

\* a delegating facade operation (index.ts 203-243, 53-93): forward the call
\* to the active adapter
Delegate(op, arg, subject) ==
    /\ Begin(op, arg, subject)
    /\ IF GuardRaises
       THEN /\ Settle(Raise(noMailboxError))
            /\ log' = <<>>
            /\ UNCHANGED <<http, isRetry>>
       ELSE /\ StartAdapter(active, op, arg, <<>>)
            /\ fres' = NoResult
    /\ wl' = NoWait
    /\ UNCHANGED <<era, other, cc, body, producer, deleted, active,
                   adapterVars, upVars, attempt, everCreated>>

\* IntegrationMailbox.fetchEmailList (index.ts 211-213, 53-57)
fetchEmailList == Delegate("list", 0, <<>>)

\* IntegrationMailbox.fetchEmailById (index.ts 241-243, 89-93)
fetchEmailById == \E id \in 1..MaxMsgs : Delegate("fetch", id, <<>>)

\* IntegrationMailbox.deleteEmailById (index.ts 230-232, 76-80)
deleteEmailById == \E id \in 1..MaxMsgs : Delegate("delete", id, <<>>)

\* IntegrationMailbox.forgetEmailAddress (index.ts 221-223, 65-69)
forgetEmailAddress == Delegate("forget", 0, <<>>)

\* IntegrationMailbox.sendSelfMail (index.ts 203-205); the earlier facade has
\* no such method
sendSelfMail ==
    /\ era = "current"
    /\ \E s \in Subjects : Delegate("send", 0, s)

\* the adapter operation of a delegating call has settled: so does the call
DelegateReturn ==
    /\ pc = "ret"
    /\ fop.op \in {"list", "fetch", "delete", "forget", "send"}
    /\ Settle(ares)
    /\ UNCHANGED <<era, other, cc, body, producer, deleted, active,
                   adapterVars, upVars, fop, http, isRetry, attempt, wl, log,
                   nCalls, everCreated>>

\* IntegrationMailbox.createEmailAddress up to its first await
\* (index.ts 184-186, 34-36)
createEmailAddress ==
    /\ Begin("create", 0, <<>>)
    /\ IF GuardRaises
       THEN /\ Settle(Raise(noMailboxError))
            /\ log' = <<>>
            /\ attempt' = 0
            /\ producer' = NoProducer
            /\ UNCHANGED <<http, isRetry>>
       ELSE /\ StartAdapter(active, "create", 0, <<>>)
            /\ attempt' = 1
            /\ fres' = NoResult
            /\ UNCHANGED producer
    /\ wl' = NoWait
    /\ UNCHANGED <<era, other, cc, body, deleted, active, adapterVars, upVars,
                   everCreated>>

\* JavaScript truthiness of a settled value: `!email` (index.ts 38)
Truthy(r) == r.kind = "value" /\ r.val # <<>>

\* does createEmailAddress go on to the other provider once the adapter it
\* called first has settled with r?
\*   earlier (index.ts 36-45): the call is awaited, a falsy email triggers
\*     the switch; a rejection propagates out of the await.
\*   current (index.ts 185-194): `return this.mailbox.createEmailAddress()`
\*     hands the promise back without awaiting it, so the catch block sees
\*     only a synchronous throw of the (async) adapter method, which never
\*     happens; a rejection or an undefined address settles the call as is.
Failover(e, at, r) ==
    IF e = "earlier"
    THEN at = 1 /\ r.kind # "raise" /\ ~Truthy(r)
    ELSE FALSE

\* createEmailAddress after an adapter's createEmailAddress has settled
\* (index.ts 186-194, 36-46)
CreateResume ==
    /\ pc = "ret" /\ fop.op = "create"
    /\ IF Failover(era, attempt, ares)
       THEN /\ active' = OtherProvider(active)
            /\ StartAdapter(OtherProvider(active), "create", 0, log)
            /\ attempt' = attempt + 1
            /\ UNCHANGED <<fres, everCreated, producer>>
       ELSE /\ Settle(ares)
            /\ everCreated' = (everCreated \/ Truthy(ares))
            /\ producer' = IF Truthy(ares)
                           THEN [p |-> log[Len(log)].p, failover |-> attempt = 2]
                           ELSE NoProducer
            /\ UNCHANGED <<active, attempt, http, isRetry, log>>
    /\ UNCHANGED <<era, other, cc, body, deleted, adapterVars, upVars, fop,
                   wl, nCalls>>


\* ---------------------------------------------------------- waitForEmail
\* const INCREMENT (index.ts 256, 107)
INCREMENT == IF era = "current" THEN INCREMENT_CURRENT ELSE INCREMENT_EARLIER

LoopRunsEager(w) == w.elapsedTime + 5000 < w.maxLimitInMs /\ ~w.hasEmailArrived

LoopRunsNoFlag(w) == w.elapsedTime < w.maxLimitInMs

LoopRunsInclusive(w) == w.elapsedTime <= w.maxLimitInMs /\ ~w.hasEmailArrived

\* while (elapsedTime < maxLimitInMs && !hasEmailArrived) (index.ts 259, 110)
LoopRuns(w) == w.elapsedTime < w.maxLimitInMs /\ ~w.hasEmailArrived

ScanLoose(emails, subjectLine, found) ==
    IF emails = <<>> THEN found ELSE <<emails[Len(emails)]>>

RECURSIVE ScanFirst(_, _, _)
ScanFirst(emails, subjectLine, found) ==
    IF emails = <<>> THEN found
    ELSE IF found = <<>> /\ Includes(Head(emails).mail_subject, subjectLine)
         THEN ScanFirst(Tail(emails), subjectLine, <<Head(emails)>>)
         ELSE ScanFirst(Tail(emails), subjectLine, found)

\* emails.forEach(...) (index.ts 264-269, 113-118): every email whose subject
\* includes subjectLine is assigned to foundEmail in turn; found is <<>> for
\* undefined and <<email>> otherwise
RECURSIVE Scan(_, _, _)
Scan(emails, subjectLine, found) ==
    IF emails = <<>> THEN found
    ELSE IF Includes(Head(emails).mail_subject, subjectLine)
         THEN Scan(Tail(emails), subjectLine, <<Head(emails)>>)
         ELSE Scan(Tail(emails), subjectLine, found)

HasMatch(box, subjectLine) ==
    \E i \in 1..Len(box) : Includes(box[i].mail_subject, subjectLine)

ListingErrorSwallowed(r) == Undefined

\* the error waitForEmail raises when its listing rejects: wrapped by the
\* current facade (index.ts 261), passed through by the earlier one (111)
ListingError(r) ==
    IF era = "current" THEN Raise("Failed fetching email list") ELSE r

MailboxAtStart(lg) == IF lg = <<>> THEN active ELSE lg[1].p

\* `this.mailbox` as waitForEmail reads it (index.ts 261 via 212, 272, 278
\* via 242; 111 via 55, 121, 127 via 91): the field is read anew at every
\* use, lg being what the call has done so far
Mailbox(lg) == active

\* after the loop (index.ts 277-280, 126-129): fetch the found email by its
\* id, or return undefined when there is none
AfterLoop(w, lg) ==
    IF w.found # <<>>
    THEN /\ StartAdapter(Mailbox(lg), "fetch", w.found[1].mail_id, lg)
         /\ wl' = w
         /\ fres' = NoResult
    ELSE /\ Settle(Undefined)
         /\ wl' = w
         /\ log' = lg
         /\ UNCHANGED <<http, isRetry>>

\* the loop head, evaluated with locals w (index.ts 259-261, 110-111): list
\* again while the condition holds, otherwise leave the loop
LoopHead(w, lg) ==
    IF LoopRuns(w)
    THEN /\ StartAdapter(Mailbox(lg), "list", 0, lg)
         /\ wl' = [w EXCEPT !.listings = w.listings + 1]
         /\ fres' = NoResult
    ELSE AfterLoop(w, lg)

\* IntegrationMailbox.waitForEmail up to its first await
\* (index.ts 251-261, 101-111)
waitForEmail ==
    \E subjectLine \in SubjectLines, maxLimitInSec \in MaxLimits :
        /\ Begin("wait", maxLimitInSec, subjectLine)
        /\ IF GuardRaises
           THEN /\ Settle(Raise(noMailboxError))
                /\ wl' = NoWait
                /\ log' = <<>>
                /\ UNCHANGED <<http, isRetry>>
           ELSE LET w == [subjectLine |-> subjectLine,
                          maxLimitInMs |-> maxLimitInSec * 1000,
                          elapsedTime |-> 0,
                          hasEmailArrived |-> FALSE,
                          found |-> <<>>,
                          emails |-> <<>>,
                          listings |-> 0,
                          seenBeforeLimit |->
                              (0 < maxLimitInSec * 1000
                               /\ HasMatch(inbox[active], subjectLine))]
                IN  LoopHead(w, <<>>)
        /\ UNCHANGED <<era, other, cc, body, producer, deleted, active,
                       adapterVars, upVars, attempt, everCreated>>

\* waitForEmail after its listing has settled (index.ts 261-275, 111-124):
\* a rejection ends the call; otherwise scan the list, then sleep when
\* nothing has arrived, else go back to the loop head
WaitAfterList ==
    /\ pc = "ret" /\ fop.op = "wait" /\ aop = "list"
    /\ IF ares.kind = "raise"
       THEN /\ Settle(ListingError(ares))
            /\ UNCHANGED <<wl, http, isRetry, log>>
       ELSE LET found == Scan(ares.val, wl.subjectLine, wl.found)
                w == [wl EXCEPT !.emails = ares.val, !.found = found,
                                !.hasEmailArrived = (found # <<>>)]
            IN  IF ~w.hasEmailArrived
                THEN /\ pc' = "wsleep"
                     /\ wl' = w
                     /\ log' = Append(log, Ev("sleep", Mailbox(log), "wait", INCREMENT))
                     /\ UNCHANGED <<aop, ares, fres, http, isRetry, inFlight,
                                    hung>>
                ELSE LoopHead(w, Append(log, Ev("match", Mailbox(log), "wait",
                                            found[1].mail_id)))
    /\ UNCHANGED <<era, other, cc, body, producer, deleted, active,
                   adapterVars, upVars, fop, attempt, nCalls, everCreated>>

\* the sleep of the loop is over: elapsedTime += INCREMENT, then the loop
\* head again (index.ts 272-273, 259)
WaitSleepDone ==
    /\ pc = "wsleep"
    /\ LoopHead([wl EXCEPT !.elapsedTime = wl.elapsedTime + INCREMENT], log)
    /\ UNCHANGED <<era, other, cc, body, producer, deleted, active,
                   adapterVars, upVars, fop, attempt, nCalls, everCreated>>

WaitResultKeepsFound(found, fetched) ==
    IF fetched.kind = "value" THEN fetched ELSE Value(found)

\* `foundEmail = await this.fetchEmailById(foundEmail.mail_id)` then
\* `return foundEmail` (index.ts 278-280, 127-129): the listed email is
\* overwritten by whatever the fetch settles with
WaitResult(found, fetched) == fetched

\* waitForEmail returns what fetchEmailById gave (index.ts 278-280)
WaitAfterFetch ==
    /\ pc = "ret" /\ fop.op = "wait" /\ aop = "fetch"
    /\ Settle(WaitResult(wl.found, ares))
    /\ UNCHANGED <<era, other, cc, body, producer, deleted, active,
                   adapterVars, upVars, fop, http, isRetry, attempt, wl, log,
                   nCalls, everCreated>>

\* ------------------------------------------------- extractLinksFromEmail
\* String.prototype.indexOf: the first position (from 1) at which sep occurs
\* in s, 0 when it does not
IndexOf(s, sep) ==
    LET at == {i \in 1..(Len(s) - Len(sep) + 1) : SubSeq(s, i, i + Len(sep) - 1) = sep}
    IN  IF at = {} THEN 0 ELSE CHOOSE i \in at : \A k \in at : i <= k

\* String.prototype.split(sep) for a non-empty sep: the pieces of s between
\* the occurrences of sep, taken from the left; <<s>> when sep does not occur
RECURSIVE Split(_, _)
Split(s, sep) ==
    LET i == IndexOf(s, sep)
    IN  IF i = 0 THEN <<s>>
        ELSE <<SubSeq(s, 1, i - 1)>> \o Split(SubSeq(s, i + Len(sep), Len(s)), sep)

\* String.prototype.substring(0, n)
Substring0(s, n) == SubSeq(s, 1, IF Len(s) < n THEN Len(s) ELSE n)

\* the filter of extractLinksFromEmail (index.ts 292-294, 141-143)
IsUrlElement(emailBodyLine) ==
    \/ Substring0(emailBodyLine, 4) = Http
    \/ Substring0(emailBodyLine, 4) = Www

\* urlElements.forEach (index.ts 295-299, 144-148): the part of each element
\* before its first double quote
RECURSIVE FullUrls(_)
FullUrls(urlElements) ==
    IF urlElements = <<>> THEN <<>>
    ELSE <<Split(Head(urlElements), Quote)[1]>> \o FullUrls(Tail(urlElements))

\* IntegrationMailbox.extractLinksFromEmail's result for a mail_body
\* (index.ts 289-301, 138-150)
ExtractLinks(mail_body) ==
    LET splitEmailBody == Split(mail_body, HrefAttr)
        urlElements == SelectSeq(splitEmailBody, IsUrlElement)
    IN  FullUrls(urlElements)

\* IntegrationMailbox.extractLinksFromEmail (index.ts 289-301, 138-150): a
\* synchronous method, it returns within the step that calls it
extractLinksFromEmail ==
    /\ Begin("links", 0, <<>>)
    /\ Settle(Value(ExtractLinks(body)))
    /\ log' = <<>>
    /\ wl' = NoWait
    /\ UNCHANGED <<era, other, cc, body, producer, deleted, active,
                   adapterVars, upVars, http, isRetry, attempt, everCreated>>

Next ==
    \/ createEmailAddress
    \/ CreateResume
    \/ fetchEmailList
    \/ fetchEmailById
    \/ deleteEmailById
    \/ forgetEmailAddress
    \/ sendSelfMail
    \/ extractLinksFromEmail
    \/ DelegateReturn
    \/ waitForEmail
    \/ WaitAfterList
    \/ WaitSleepDone
    \/ WaitAfterFetch
    \/ DevCreateResume
    \/ DevListIds
    \/ DevListMsgs
    \/ DevFetchResume
    \/ DevBoolResume
    \/ GuerrillaResponse
    \/ GuerrillaError
    \/ GuerrillaRetry
    \/ Return
    \/ Deliver

Spec == Init /\ [][Next]_vars

\* a facade whose createEmailAddress has returned an address of its active
\* provider (index.ts 184-195 with part_004 110-118 or guerrilla 39-46): the
\* adapter holds the credential of the mailbox the upstream made, the mailbox
\* is empty; nCalls counts the calls made from here on
InitSession ==
    /\ era \in Eras
    /\ active \in Providers
    /\ token = (IF active = "DEVELOPER" THEN 1 ELSE 0)
    /\ mailboxName = (IF active = "DEVELOPER" THEN 1 ELSE 0)
    /\ sidToken = (IF active = "GUERRILLA" THEN 1 ELSE 0)
    /\ upSession = [p \in Providers |-> IF p = active THEN 1 ELSE 0]
    /\ live = [p \in Providers |-> p = active]
    /\ inbox = [p \in Providers |-> <<>>]
    /\ nextId = [p \in Providers |-> 1]
    /\ pc = "idle"
    /\ fop = NoOp
    /\ aop = "none"
    /\ http = NoReq
    /\ isRetry = 0
    /\ ares = NoResult
    /\ fres = NoResult
    /\ attempt = 0
    /\ wl = NoWait
    /\ log = <<>>
    /\ nCalls = 0
    /\ everCreated = TRUE
    /\ deleted = 0
    /\ body = TestBody
    /\ producer = [p |-> active, failover |-> FALSE]
    /\ inFlight = 0
    /\ hung = FALSE
    /\ cc = NoOverlap
    /\ other = NoFacade

\* a caller that, on such a facade, only deletes and lists messages
\* (part_000 31-36, developermail.test.ts 153-160)
NextDeleteList ==
    \/ deleteEmailById
    \/ fetchEmailList
    \/ DelegateReturn
    \/ DevListIds
    \/ DevListMsgs
    \/ DevBoolResume
    \/ GuerrillaResponse
    \/ GuerrillaError
    \/ GuerrillaRetry
    \/ Return
    \/ Deliver

SpecDeleteList == InitSession /\ [][NextDeleteList]_vars

\* a facade whose caller holds an email with any of the bodies
InitLinks ==
    /\ era \in Eras
    /\ active \in Providers
    /\ token = 0 /\ mailboxName = 0 /\ sidToken = 0
    /\ upSession = [p \in Providers |-> 0]
    /\ live = [p \in Providers |-> FALSE]
    /\ inbox = [p \in Providers |-> <<>>]
    /\ nextId = [p \in Providers |-> 1]
    /\ pc = "idle"
    /\ fop = NoOp
    /\ aop = "none"
    /\ http = NoReq
    /\ isRetry = 0
    /\ ares = NoResult
    /\ fres = NoResult
    /\ attempt = 0
    /\ wl = NoWait
    /\ log = <<>>
    /\ nCalls = 0
    /\ everCreated = FALSE
    /\ deleted = 0
    /\ body \in BodiesOf(MaxPieces)
    /\ producer = NoProducer
    /\ inFlight = 0
    /\ hung = FALSE
    /\ cc = NoOverlap
    /\ other = NoFacade

\* a caller that only extracts the links of that email
NextLinks ==
    \/ extractLinksFromEmail
    \/ Return

SpecLinks == InitLinks /\ [][NextLinks]_vars


\* the upstream stops answering: the request in flight stays pending
\* (axios.get at guerrilla 17 and axios(...) at part_004 71-73 settle only
\* when the server answers or the connection fails)
Hang ==
    /\ pc = "http"
    /\ ~hung
    /\ hung' = TRUE
    /\ UNCHANGED <<era, other, cc, active, adapterVars, upVars, pc, fop, aop,
                   http, isRetry, ares, fres, attempt, wl, log, nCalls,
                   everCreated, deleted, body, producer, inFlight>>

\* a caller that, on a facade holding an address, only waits for emails
\* (part_000 38-45, developermail.test.ts 121), against an upstream that may
\* stop answering
NextWait ==
    \/ waitForEmail
    \/ WaitAfterList
    \/ WaitSleepDone
    \/ WaitAfterFetch
    \/ DevListIds
    \/ DevListMsgs
    \/ DevFetchResume
    \/ GuerrillaResponse
    \/ GuerrillaError
    \/ GuerrillaRetry
    \/ Return
    \/ Deliver
    \/ Hang

SpecWait == InitSession /\ [][NextWait]_vars

\* one waitForEmail call of that caller, on any content of the mailbox,
\* against an upstream that answers or fails every request: each request
\* settles and each timer fires (weak fairness of the steps
\* that end a request, a back-off and a sleep of the loop), and the code
\* after an await runs once what it awaits has settled
NextWaitFair ==
    \/ waitForEmail
    \/ WaitAfterList
    \/ WaitSleepDone
    \/ WaitAfterFetch
    \/ DevListIds
    \/ DevListMsgs
    \/ DevFetchResume
    \/ GuerrillaResponse
    \/ GuerrillaError
    \/ GuerrillaRetry
    \/ Deliver

\* what the premise lets happen in the end: the request in flight
\* settles, the back-off or the sleep of the loop is over, the code after an
\* await runs (the call is suspended at one place, so at most one of these
\* is enabled at a time)
Completes ==
    \/ DevListIds
    \/ DevListMsgs
    \/ DevFetchResume
    \/ GuerrillaResponse
    \/ GuerrillaError
    \/ GuerrillaRetry
    \/ WaitSleepDone
    \/ WaitAfterList
    \/ WaitAfterFetch

SpecWaitFair == InitSession /\ [][NextWaitFair]_vars /\ WF_vars(Completes)

\* ----------------------------------------------- overlapping calls
\* A second caller invokes createEmailAddress on the same facade while the
\* call of the first is suspended at an await: nothing in
\* IntegrationMailbox or in the adapters serialises calls, so the steps of
\* the two calls interleave at their awaits.  cc holds the second call: its
\* place, the request it has in flight, sendRequest's isRetry, the attempt
\* and what its adapter returned.
mainVars == <<pc, fop, aop, http, isRetry, ares, fres, attempt, wl, log,
              nCalls, everCreated, deleted, body, producer, inFlight, hung>>

\* createEmailAddress up to its first await (index.ts 184-186, 34-36)
OverlapCreate ==
    /\ cc.pc = "idle"
    /\ pc \in {"http", "gsleep", "ret", "wsleep"}
    /\ ~GuardRaises
    /\ cc' = [pc |-> "http", req |-> Request(active, "create", 0, <<>>),
              isRetry |-> 0, attempt |-> 1, res |-> NoResult]
    /\ UNCHANGED <<era, other, active, adapterVars, upVars, mainVars>>

\* DeveloperMailService.createEmailAddress of the second call after its
\* request settles (part_004 110-118, developerMailService.ts 216-224)
OverlapDevCreateResume ==
    /\ cc.pc = "http" /\ cc.req.p = "DEVELOPER"
    /\ \E ok \in BOOLEAN :
        /\ ok => CanSucceed(cc.req)
        /\ LET sr == DevSendRequest(ok)
               n == CreatedSession(cc.req)
           IN  CASE sr = "resp" ->
                       /\ Served(cc.req)
                       /\ token' = DevCredentials(n)[1]
                       /\ mailboxName' = DevCredentials(n)[2]
                       /\ cc' = [cc EXCEPT !.pc = "ret", !.req = NoReq,
                                           !.res = Value(DevAddress(UpName(n)))]
                 [] sr = "undef" ->
                       /\ UNCHANGED <<upVars, token, mailboxName>>
                       /\ cc' = [cc EXCEPT !.pc = "ret", !.req = NoReq,
                                           !.res = IF era = "current"
                                                   THEN Raise("Could not create email address")
                                                   ELSE Undefined]
                 [] OTHER ->
                       /\ UNCHANGED <<upVars, token, mailboxName>>
                       /\ cc' = [cc EXCEPT !.pc = "ret", !.req = NoReq,
                                           !.res = Raise("axios")]
    /\ UNCHANGED <<era, other, active, sidToken, mainVars>>

\* GuerrillaMailService.createEmailAddress of the second call, its request
\* answered (guerrilla 39-46)
OverlapGuerrillaResponse ==
    /\ cc.pc = "http" /\ cc.req.p = "GUERRILLA"
    /\ CanSucceed(cc.req)
    /\ Served(cc.req)
    /\ sidToken' = SidTokenAfter(cc.req)
    /\ cc' = [cc EXCEPT !.pc = "ret", !.req = NoReq, !.isRetry = 0,
                        !.res = GuerrillaValue(cc.req, TRUE)]
    /\ UNCHANGED <<era, other, active, token, mailboxName, mainVars>>

\* its request failed: sendRequest's catch (guerrilla 19-28)
OverlapGuerrillaError ==
    /\ cc.pc = "http" /\ cc.req.p = "GUERRILLA"
    /\ \E d \in ErrorData :
        IF d # "none" /\ Retries(d, cc.isRetry)
        THEN cc' = [cc EXCEPT !.pc = "gsleep"]
        ELSE cc' = [cc EXCEPT !.pc = "ret", !.req = NoReq, !.isRetry = 0,
                              !.res = GuerrillaNoResponse(cc.req)]
    /\ UNCHANGED <<era, other, active, adapterVars, upVars, mainVars>>

\* the back-off is over: sendRequest(payload, isRetry + 1) (guerrilla 24-26)
OverlapGuerrillaRetry ==
    /\ cc.pc = "gsleep"
    /\ cc' = [cc EXCEPT !.pc = "http", !.isRetry = cc.isRetry + 1,
                        !.req = Request("GUERRILLA", "create", 0, <<>>)]
    /\ UNCHANGED <<era, other, active, adapterVars, upVars, mainVars>>

\* the upstream has answered the id-list request of the first caller's
\* DeveloperMail listing and the response is on its way: the adapter resumes
\* only when it has arrived, and steps of the second call may come first
DevIdsAnswered ==
    /\ pc = "http" /\ http.p = "DEVELOPER" /\ http.kind = "ids"
    /\ CanSucceed(http)
    /\ http' = [http EXCEPT !.kind = "answered", !.ids = IdsOf(inbox["DEVELOPER"])]
    /\ UNCHANGED <<era, other, cc, active, adapterVars, upVars, pc, fop, aop,
                   isRetry, ares, fres, attempt, wl, log, nCalls, everCreated,
                   deleted, body, producer, inFlight, hung>>

\* that response arrives: fetchEmailList builds its second request
\* (part_004 128-134, developerMailService.ts 234-240)
DevIdsArrive ==
    /\ pc = "http" /\ http.p = "DEVELOPER" /\ http.kind = "answered"
    /\ http' = Request("DEVELOPER", "msgs", 0, http.ids)
    /\ log' = Append(log, Ev("http", "DEVELOPER", "msgs", 0))
    /\ inFlight' = Awaited(inFlight) + 1
    /\ hung' = FALSE
    /\ UNCHANGED <<era, other, cc, active, adapterVars, upVars, pc, fop, aop,
                   isRetry, ares, fres, attempt, wl, nCalls, everCreated,
                   deleted, body, producer>>

\* createEmailAddress of the second call once its adapter has settled
\* (index.ts 186-194, 36-46)
OverlapCreateResume ==
    /\ cc.pc = "ret"
    /\ IF Failover(era, cc.attempt, cc.res)
       THEN /\ active' = OtherProvider(active)
            /\ cc' = [pc |-> "http",
                      req |-> Request(OtherProvider(active), "create", 0, <<>>),
                      isRetry |-> 0, attempt |-> cc.attempt + 1,
                      res |-> NoResult]
       ELSE /\ cc' = [cc EXCEPT !.pc = "done"]
            /\ UNCHANGED active
    /\ UNCHANGED <<era, other, adapterVars, upVars, mainVars>>

\* two callers on a facade that holds an address: the first makes one call,
\* createEmailAddress or fetchEmailList, the second one createEmailAddress,
\* not awaiting each other
NextOverlap ==
    \/ createEmailAddress
    \/ CreateResume
    \/ fetchEmailList
    \/ DelegateReturn
    \/ DevCreateResume
    \/ DevListIds
    \/ DevIdsAnswered
    \/ DevIdsArrive
    \/ DevListMsgs
    \/ GuerrillaResponse
    \/ GuerrillaError
    \/ GuerrillaRetry
    \/ Deliver
    \/ OverlapCreate
    \/ OverlapDevCreateResume
    \/ OverlapGuerrillaResponse
    \/ OverlapGuerrillaError
    \/ OverlapGuerrillaRetry
    \/ OverlapCreateResume

SpecOverlap == InitSession /\ [][NextOverlap]_vars

\* the first caller waits with a limit that one polling interval covers
waitForEmailOnce ==
    /\ waitForEmail
    /\ fop'.arg * 1000 <= INCREMENT_CURRENT

\* the same with waitForEmail as the call of the first caller
NextOverlapWait ==
    \/ waitForEmailOnce
    \/ WaitAfterList
    \/ WaitSleepDone
    \/ WaitAfterFetch
    \/ DevListIds
    \/ DevListMsgs
    \/ DevFetchResume
    \/ GuerrillaResponse
    \/ GuerrillaError
    \/ GuerrillaRetry
    \/ Deliver
    \/ OverlapCreate
    \/ OverlapDevCreateResume
    \/ OverlapGuerrillaResponse
    \/ OverlapGuerrillaError
    \/ OverlapGuerrillaRetry
    \/ OverlapCreateResume

SpecOverlapWait == InitSession /\ [][NextOverlapWait]_vars

\* ------------------------------------------------- a second instance
\* The program constructs a second IntegrationMailbox, B, next to the one
\* modelled so far, A.  Of B only what makes up its session is kept: the
\* provider given to its constructor, its active adapter, the credentials of
\* its two adapters and the attempt its createEmailAddress is at.  The
\* upstream keeps the mailboxes B creates apart from A's (each creation
\* answers with a mailbox and credential of its own), so B's requests leave
\* the upstream state of A's mailboxes as it is.
AdapterShared(f, p) == <<"A", p>>

\* `private mailboxProviders = { 'GUERRILLA': new GuerrillaMailService(),
\* 'DEVELOPER': new DeveloperMailService() }` (index.ts 160-163, 10-13): an
\* instance field, so each constructed facade f gets two adapter objects of
\* its own; an adapter object is named by the facade that made it
AdapterOf(f, p) == <<f, p>>

\* new IntegrationMailbox(mailboxProvider) (index.ts 174-176, 24-26)
NewFacade ==
    /\ other = NoFacade
    /\ \E p \in Providers :
           other' = [NoFacade EXCEPT !.chosen = p, !.active = p]
    /\ UNCHANGED <<era, cc, active, adapterVars, upVars, mainVars>>

\* B.createEmailAddress up to its first await (index.ts 184-186, 34-36)
OtherCreate ==
    /\ other.active \in Providers
    /\ other.attempt = 0
    /\ other' = [other EXCEPT !.attempt = 1]
    /\ UNCHANGED <<era, cc, active, adapterVars, upVars, mainVars>>

\* what an adapter's createEmailAddress settles with: an address when the
\* upstream answered, else undefined or a rejection (part_004 110-118,
\* developerMailService.ts 216-224, guerrilla 39-46)
CreateOutcome(p, ok) ==
    IF ok THEN Value(<<"@">>)
    ELSE IF p = "DEVELOPER" /\ era = "current" THEN Raise("axios")
    ELSE Undefined

\* the createEmailAddress of B's active adapter settles, with credential n
\* when the upstream answered, and B.createEmailAddress goes on (index.ts
\* 186-194, 36-46).  The adapter object stores the credential: it is B's
\* own unless AdapterOf names an object of A.
OtherCreateSettles ==
    /\ other.attempt \in {1, 2}
    /\ \E ok \in BOOLEAN, n \in 1..MaxSessions :
        LET p == other.active
            r == CreateOutcome(p, ok)
            own == AdapterOf("B", p) # AdapterOf("A", p)
            next == IF Failover(era, other.attempt, r)
                    THEN [other EXCEPT !.active = OtherProvider(p), !.attempt = 2]
                    ELSE [other EXCEPT !.attempt = 0]
        IN  IF ~ok
            THEN /\ other' = next
                 /\ UNCHANGED adapterVars
            ELSE IF own
            THEN /\ other' = IF p = "DEVELOPER"
                             THEN [next EXCEPT !.token = DevCredentials(n)[1],
                                               !.mailboxName = DevCredentials(n)[2]]
                             ELSE [next EXCEPT !.sidToken = n]
                 /\ UNCHANGED adapterVars
            ELSE /\ other' = next
                 /\ token' = IF p = "DEVELOPER" THEN DevCredentials(n)[1] ELSE token
                 /\ mailboxName' = IF p = "DEVELOPER" THEN DevCredentials(n)[2]
                                   ELSE mailboxName
                 /\ sidToken' = IF p = "GUERRILLA" THEN n ELSE sidToken
    /\ UNCHANGED <<era, cc, active, upVars, mainVars>>

\* a program with two facades: on A it creates addresses, on B it constructs
\* the facade and creates addresses, in any order
NextTwoFacades ==
    \/ createEmailAddress
    \/ CreateResume
    \/ DevCreateResume
    \/ GuerrillaResponse
    \/ GuerrillaError
    \/ GuerrillaRetry
    \/ Return
    \/ NewFacade
    \/ OtherCreate
    \/ OtherCreateSettles

SpecTwoFacades == Init /\ [][NextTwoFacades]_vars

\* ================================================================ claims
IsRet(e) == e.t = "aret"
IsCall(e) == e.t = "acall"

\* the adapter operations the running facade call has seen settle, in order
Rets == SelectSeq(log, IsRet)

\* the adapter operations the running facade call has invoked, in order
Calls == SelectSeq(log, IsCall)

CreateDone == pc = "done" /\ fop.op = "create"
WaitDone == pc = "done" /\ fop.op = "wait"

\* C1: whenever the adapter that createEmailAddress calls first fails (it
\* rejects or yields no address), the facade switches the active adapter to
\* the other provider, calls that adapter's createEmailAddress exactly once
\* and returns its result.
C1_FailoverOnFailure ==
    (CreateDone /\ Len(Rets) >= 1 /\ Rets[1].x # 1) =>
        /\ active = OtherProvider(Rets[1].p)
        /\ Count(log, "acall", OtherProvider(Rets[1].p), "create") = 1
        /\ Len(Rets) = 2
        /\ Rets[2].p = OtherProvider(Rets[1].p)
        /\ RetCode(fres) = Rets[2].x

\* C2: one facade createEmailAddress call invokes adapter createEmailAddress
\* at most twice and at most once per provider; when both providers fail the
\* call ends without an address, and there is no third attempt.
C2_AtMostTwoAttempts ==
    fop.op = "create" =>
        /\ CountOp(log, "acall", "create") <= 2
        /\ \A p \in Providers : Count(log, "acall", p, "create") <= 1
        /\ Len(Calls) = CountOp(log, "acall", "create")
        /\ (CreateDone /\ Len(Rets) = 2 /\ Rets[1].x # 1 /\ Rets[2].x # 1) =>
               fres.kind \in {"undefined", "raise"}

\* both providers were tried in one call and both failed
C2_Witness ==
    /\ CreateDone
    /\ Count(log, "acall", "DEVELOPER", "create") = 1
    /\ Count(log, "acall", "GUERRILLA", "create") = 1
    /\ Len(Rets) = 2 /\ Rets[1].x # 1 /\ Rets[2].x # 1
    /\ fres.kind = "undefined"


\* the positions in the log of the events of kind t
Positions(t) == {i \in 1..Len(log) : log[i].t = t}

\* the number of matches in the listing waitForEmail scanned last
Matches(emails, subjectLine) ==
    {i \in 1..Len(emails) : Includes(emails[i].mail_subject, subjectLine)}

C5_FirstMatchWins ==
    (fop.op = "wait" /\ wl.hasEmailArrived) =>
        LET first == CHOOSE i \in Matches(wl.emails, wl.subjectLine) :
                        \A j \in Matches(wl.emails, wl.subjectLine) : i <= j
        IN  /\ wl.found[1] = wl.emails[first]
            /\ \A i \in Positions("acall") :
                   log[i].op = "fetch" => log[i].x = wl.emails[first].mail_id
            /\ (pc = "done" /\ fres.kind = "value") =>
                   fres.val[1].mail_id = wl.emails[first].mail_id

\* C5 (amended): when one listing contains several matching messages, the
\* last of them in list order is the match: its id goes to fetchEmailById and
\* its message is returned.
C5_LastMatchWins ==
    (fop.op = "wait" /\ wl.hasEmailArrived) =>
        LET last == CHOOSE i \in Matches(wl.emails, wl.subjectLine) :
                        \A j \in Matches(wl.emails, wl.subjectLine) : i >= j
        IN  /\ wl.found[1] = wl.emails[last]
            /\ \A i \in Positions("acall") :
                   log[i].op = "fetch" => log[i].x = wl.emails[last].mail_id
            /\ (pc = "done" /\ fres.kind = "value") =>
                   fres.val[1].mail_id = wl.emails[last].mail_id

\* a listing held two matching messages and the call returned one of them
C5_Witness ==
    /\ WaitDone
    /\ wl.hasEmailArrived
    /\ Cardinality(Matches(wl.emails, wl.subjectLine)) >= 2
    /\ fres.kind = "value"
    /\ fres.val[1].mail_id = wl.emails[Len(wl.emails)].mail_id

\* the sleeps of the polling loop (those of a 502 back-off belong to the
\* adapter's sendRequest)
LoopSleeps == {i \in Positions("sleep") : log[i].op = "wait"}
Listings == {i \in Positions("acall") : log[i].op = "list"}
Fetches == {i \in Positions("acall") : log[i].op = "fetch"}

\* C6: a waitForEmail call that finds a match issues exactly one
\* fetchEmailById, with the matched id, after its last listing and before it
\* returns, and neither lists nor sleeps after the match; a call that times
\* out issues no fetchEmailById.
C6_OneFetchAfterMatch ==
    fop.op = "wait" =>
        /\ Cardinality(Fetches) <= 1
        /\ Cardinality(Positions("match")) <= 1
        /\ \A m \in Positions("match") :
               /\ wl.hasEmailArrived
               /\ Fetches = {m + 1}
               /\ log[m + 1].x = log[m].x
               /\ log[m].x = wl.found[1].mail_id
               /\ \A i \in Listings \cup LoopSleeps : i < m
        /\ wl.hasEmailArrived => Positions("match") # {}
        /\ ~wl.hasEmailArrived => Fetches = {}
        /\ (pc = "done" /\ wl.hasEmailArrived) =>
               /\ Cardinality(Fetches) = 1
               /\ log[Len(log)].t = "aret" /\ log[Len(log)].op = "fetch"

\* a match was found after the loop had slept, and the call has returned
C6_Witness ==
    /\ WaitDone
    /\ wl.hasEmailArrived
    /\ LoopSleeps # {}
    /\ Cardinality(Fetches) = 1

\* the listings of the running call that were rejected
RejectedListings == {i \in Positions("aret") : log[i].op = "list" /\ log[i].x = -1}

C8_EmptyListOnFailure ==
    (pc = "ret" /\ aop = "list" /\ Len(log) >= 2 /\ log[Len(log) - 1].t = "herr") =>
        /\ ares.kind = "value"
        /\ ares.val = <<>>

\* C9: on a facade on which no createEmailAddress has succeeded yet,
\* fetchEmailList, fetchEmailById, deleteEmailById, forgetEmailAddress and
\* sendSelfMail fail at once with the 'no mailbox' error and send no request.
C9_NoMailboxPrecondition ==
    (~everCreated /\ fop.op \in {"list", "fetch", "delete", "forget", "send"}) =>
        /\ pc = "done"
        /\ fres.kind = "raise"
        /\ fres.val = <<noMailboxError>>
        /\ Positions("http") = {}

\* C10: every createEmailAddress call on the facade returns a string that
\* contains '@'; it never completes with undefined or an empty value.
C10_AlwaysAnAddress ==
    CreateDone => (fres.kind = "value" /\ ContainsAt(fres.val))

\* C10 (amended): a createEmailAddress call whose last tried adapter obtained
\* an address returns it, a string containing '@'; otherwise the call
\* completes with undefined or raises.
C10_AddressWhenCreated ==
    CreateDone =>
        IF Rets[Len(Rets)].x = 1
        THEN fres.kind = "value" /\ ContainsAt(fres.val)
        ELSE fres.kind \in {"undefined", "raise"}

\* a DeveloperMail address was composed and returned
C10_Witness ==
    /\ CreateDone
    /\ active = "DEVELOPER"
    /\ fres.kind = "value"
    /\ ContainsAt(fres.val)

\* an adapter operation has settled after its (last) request failed
FailedReturn(op) ==
    pc = "ret" /\ aop = op /\ Len(log) >= 2 /\ log[Len(log) - 1].t = "herr"

\* an adapter operation has settled after the upstream answered its request
ServedReturn(op) ==
    pc = "ret" /\ aop = op /\ Len(log) >= 2 /\ log[Len(log) - 1].t # "herr"

\* C11: deleteEmailById of either adapter returns true exactly when the
\* upstream confirmed the deletion, and returns false (not undefined, and
\* without raising) on every failure, including a request that could not be
\* completed.
C11_DeleteBoolean ==
    /\ FailedReturn("delete") => (ares.kind = "value" /\ ares.val = <<FALSE>>)
    /\ ServedReturn("delete") => (ares.kind = "value" /\ ares.val = <<TRUE>>)

\* C12: after deleteEmailById(id) has reported success for an id present in
\* the mailbox, the fetchEmailList issued as the next call on the same
\* facade returns a list that does not contain id.
C12_DeletedNotListed ==
    (pc = "done" /\ fop.op = "list" /\ deleted # 0 /\ fres.kind = "value") =>
        ~HasId(fres.val, deleted)

\* one of two messages was deleted and the next listing returned the other
C12_Witness ==
    /\ pc = "done" /\ fop.op = "list"
    /\ deleted # 0
    /\ fres.kind = "value"
    /\ Len(fres.val) = 1
    /\ fres.val[1].mail_id # deleted

\* C13: sendSelfMail on a facade whose active provider is GuerrillaMail
\* returns false: it does not raise and does not report success.
C13_GuerrillaSendFalse ==
    (pc = "done" /\ fop.op = "send" /\ active = "GUERRILLA") =>
        (fres.kind = "value" /\ fres.val = <<FALSE>>)

\* the HTTP attempts the adapter operation that log position i belongs to
\* has made up to i
AttemptsUpTo(i) ==
    LET calls == {j \in 1..i : log[j].t = "acall"}
        call == CHOOSE j \in calls : \A k \in calls : k <= j
    IN  Cardinality({k \in call..i : log[k].t = "http"})

FinalFailures ==
    {i \in Positions("herr") : ~(i < Len(log) /\ log[i + 1].t = "sleep")}

\* C15: every upstream failure other than a 502 still within its retry
\* budget surfaces from the adapter operation at once, with no retry, as an
\* empty list, false or undefined and never as a raised exception; so does a
\* 502 that persists after the 3 retries.
C15_FailureDegrades ==
    \A i \in FinalFailures :
        /\ log[i + 1].t = "aret"
        /\ log[i + 1].x \in {0, 1}
        /\ (i + 1 = Len(log) /\ pc = "ret") =>
               \/ ares.kind = "undefined"
               \/ ares.kind = "value" /\ ares.val \in {<<>>, <<FALSE>>}

LinksDone == pc = "done" /\ fop.op = "links"

\* where the attribute href=" starts in the body
HrefPositions(b) ==
    {i \in 1..(Len(b) - Len(HrefAttr) + 1) : SubSeq(b, i, i + Len(HrefAttr) - 1) = HrefAttr}

\* s begins with t
StartsWith(s, t) == Len(s) >= Len(t) /\ SubSeq(s, 1, Len(t)) = t

\* the attribute value that starts at position j: up to the next double quote
HrefValue(b, j) ==
    LET rest == SubSeq(b, j, Len(b))
        q == IndexOf(rest, Quote)
    IN  IF q = 0 THEN rest ELSE SubSeq(rest, 1, q - 1)

\* every href=" of the body is closed by a double quote of its own (not the
\* one that opens a later attribute) and its value begins with 'http' or
\* 'www.'
WellFormedAnchors(b) ==
    \A i \in HrefPositions(b) :
        LET j == i + Len(HrefAttr)
            q == IndexOf(SubSeq(b, j, Len(b)), Quote)
        IN  /\ q # 0
            /\ \A k \in HrefPositions(b) : k + Len(HrefAttr) # j + q
            /\ \/ StartsWith(SubSeq(b, j, Len(b)), Http)
               \/ StartsWith(SubSeq(b, j, Len(b)), Www)

\* the values of the href attributes found from position i on, in document
\* order
RECURSIVE HrefValues(_, _)
HrefValues(b, i) ==
    IF i > Len(b) THEN <<>>
    ELSE IF i \in HrefPositions(b)
         THEN <<HrefValue(b, i + Len(HrefAttr))>> \o HrefValues(b, i + Len(HrefAttr))
         ELSE HrefValues(b, i + 1)

\* C16: on a body containing N >= 1 well-formed anchors href="U1" ...
\* href="UN", each Ui beginning with 'http' or 'www.', extractLinksFromEmail
\* returns exactly [U1, ..., UN]: document order, duplicates kept, without
\* the quotes; for the single anchor of https://example.com it returns
\* ["https://example.com"].
C16_AnchorsInOrder ==
    (LinksDone /\ HrefPositions(body) # {} /\ WellFormedAnchors(body)) =>
        /\ fres.kind = "value"
        /\ fres.val = HrefValues(body, 1)
        /\ body = Anchor(Website) => fres.val = <<Website>>

\* C17: extractLinksFromEmail returns an empty sequence for every body that
\* contains no href=" attribute, whatever its text, also when the text
\* begins with 'http' or 'www.'.
C17_NoAnchorNoLinks ==
    (LinksDone /\ HrefPositions(body) = {}) =>
        (fres.kind = "value" /\ fres.val = <<>>)

DelegatingOps == {"list", "fetch", "delete", "forget", "send"}

\* C18: every fetchEmailList, fetchEmailById, deleteEmailById,
\* forgetEmailAddress and sendSelfMail call on the facade is forwarded, with
\* its arguments, to the adapter that is active at the time of the call and
\* to no other; when the latest createEmailAddress obtained its address
\* (through failover or not), that is the adapter that produced the address.
C18_DelegatesToActive ==
    fop.op \in DelegatingOps =>
        /\ Len(Calls) = 1
        /\ log[1] = Ev("acall", active, fop.op, fop.arg)
        /\ \A i \in 1..Len(log) : log[i].p = active
        /\ http.p \in {"none", active}
        /\ producer.p # "none" => log[1].p = producer.p

\* a call delegated after a createEmailAddress that got its address from the
\* other provider has been answered by that provider
C18_Witness ==
    /\ pc = "done"
    /\ fop.op \in DelegatingOps
    /\ producer.failover
    /\ log[1].p = producer.p
    /\ fres.kind = "value"

\* an adapter's createEmailAddress has returned an address
AddressReturned == pc = "ret" /\ aop = "create" /\ ares.kind = "value"

\* C19: when an adapter's createEmailAddress returns an address, the
\* adapter's credential (token and mailbox name for DeveloperMail, sid token
\* for GuerrillaMail) already holds the values of that same upstream creation
\* response, and for DeveloperMail the address is
\* '<mailbox name>@developermail.com'; every later request of that adapter
\* carries that credential.
C19_CredentialBeforeAddress ==
    /\ (AddressReturned /\ log[Len(log)].p = "DEVELOPER") =>
           /\ token = upSession["DEVELOPER"] /\ token # 0
           /\ mailboxName = upSession["DEVELOPER"]
           /\ ares.val = UpName(mailboxName) \o <<"@", "developermail.com">>
    /\ (AddressReturned /\ log[Len(log)].p = "GUERRILLA") =>
           /\ sidToken = upSession["GUERRILLA"] /\ sidToken # 0
           /\ ares.val = GuerrillaAddress(sidToken)
    /\ http.p = "DEVELOPER" =>
           /\ http.tok = token /\ token = upSession["DEVELOPER"]
           /\ http.kind # "create" =>
                  (http.name = mailboxName /\ mailboxName = upSession["DEVELOPER"])
    /\ http.p = "GUERRILLA" =>
           (http.tok = sidToken /\ sidToken = upSession["GUERRILLA"])

\* a request made after a creation is in flight with the credential of the
\* creation response
C19_Witness ==
    /\ pc = "http"
    /\ http.kind \in {"ids", "list", "fetch", "delete"}
    /\ http.tok # 0
    /\ http.tok = upSession[http.p]
    /\ http.p = "DEVELOPER" => http.name = http.tok

\* C20: the session state of a facade (the active provider and each
\* adapter's token, mailbox name and sid token) changes only inside
\* createEmailAddress: the other facade operations leave it unchanged
\* (forgetEmailAddress does not clear the local credential), and an adapter
\* createEmailAddress that fails leaves that adapter's credentials unchanged.
C20_SessionFrame ==
    [][/\ active' # active => (fop.op = "create" /\ fop'.op = "create")
       /\ adapterVars' # adapterVars =>
              /\ fop.op = "create" /\ aop = "create" /\ http.kind = "create"
              /\ pc' = "ret" /\ ares'.kind = "value"
       /\ (fop.op = "create" /\ pc = "http" /\ pc' = "ret" /\ ares'.kind # "value") =>
              adapterVars' = adapterVars]_vars

\* the upstream has forgotten the address and the adapter still holds the
\* credential it was created with
C20_Witness ==
    /\ pc = "done"
    /\ fop.op = "forget"
    /\ fres.kind = "value" /\ fres.val = <<TRUE>>
    /\ (token # 0 \/ sidToken # 0)

\* ceil(a / b) for b > 0
CeilDiv(a, b) == (a + b - 1) \div b

\* the polling interval of the snapshot that runs (index.ts 256, 107)
PollStep == IF era = "current" THEN INCREMENT_CURRENT ELSE INCREMENT_EARLIER

\* the most listings waitForEmail may perform for a limit of ms milliseconds
MostListings(ms) == IF ms <= 0 THEN 0 ELSE CeilDiv(ms, PollStep)

\* C24: waitForEmail(subject, T) starts with elapsed = 0 and performs at
\* most ceil(T * 1000 / INCREMENT) listings, none when T <= 0; every listing
\* without a match is followed by exactly one sleep of INCREMENT, which adds
\* exactly INCREMENT to elapsed, so elapsed is a multiple of INCREMENT and
\* never decreases.
C24_ElapsedAndListings ==
    /\ [](fop.op = "wait" =>
            /\ wl.maxLimitInMs = fop.arg * 1000
            /\ wl.elapsedTime >= 0
            /\ wl.elapsedTime % PollStep = 0
            /\ Cardinality(Listings) <= MostListings(fop.arg * 1000)
            /\ \A i \in LoopSleeps : log[i].x = PollStep
            /\ wl.elapsedTime =
                   PollStep * (Cardinality(LoopSleeps)
                               - (IF pc = "wsleep" THEN 1 ELSE 0))
            /\ Cardinality(LoopSleeps) <= Cardinality(Listings))
    /\ [][/\ (fop'.op = "wait" /\ nCalls' # nCalls /\ ~GuardRaises) =>
                 wl'.elapsedTime = 0
          /\ (fop.op = "wait" /\ fop'.op = "wait" /\ nCalls' = nCalls) =>
                 /\ wl'.elapsedTime >= wl.elapsedTime
                 /\ wl'.elapsedTime # wl.elapsedTime =>
                        /\ pc = "wsleep"
                        /\ wl'.elapsedTime = wl.elapsedTime + PollStep]_vars

\* a call that ran out of time after as many listings as the limit allows,
\* more than one
C24_Witness ==
    /\ WaitDone
    /\ Cardinality(Listings) = MostListings(wl.maxLimitInMs)
    /\ Cardinality(Listings) >= 2
    /\ wl.elapsedTime >= wl.maxLimitInMs
    /\ fres.kind = "undefined"


\* C27: after a createEmailAddress call in which failover took place, the
\* active adapter is the alternate provider whether or not the alternate
\* succeeded; it is never restored to the original, so a later
\* createEmailAddress starts with the alternate and, if that fails, fails
\* over back to the original.
C27_FailoverIsSticky ==
    /\ [](/\ (fop.op = "create" /\ attempt = 2) =>
                /\ Len(Calls) = 2
                /\ Calls[1].p # Calls[2].p
                /\ active = Calls[2].p
          /\ (fop.op = "create" /\ attempt = 1) =>
                /\ Len(Calls) = 1
                /\ active = Calls[1].p
          /\ (fop.op = "create" /\ pc \in {"http", "gsleep", "ret"}
              /\ producer.failover) =>
                Calls[1].p = producer.p)
    /\ [][active' # active =>
              /\ fop.op = "create" /\ pc = "ret"
              /\ attempt = 1 /\ attempt' = 2
              /\ ~Truthy(ares)
              /\ pc' \in {"http", "ret"}]_vars

\* an earlier call failed over and returned the alternate's address; the
\* running call started with the alternate, which failed, and has switched
\* back to the original provider
C27_Witness ==
    /\ fop.op = "create"
    /\ nCalls = 2
    /\ producer.failover
    /\ attempt = 2
    /\ pc = "ret"
    /\ Calls[1].p = producer.p
    /\ active # producer.p
    /\ ~Truthy(ares)

\* C28: waitForEmail returns exactly the outcome of the fetchEmailById it
\* issues for the matched id: undefined when that fetch yields undefined
\* although a match was found, a rejection when that fetch rejects, and
\* otherwise the fetched email; the email taken from the listing is not
\* returned in its place.
C28_ReturnsFetchOutcome ==
    /\ [](WaitDone /\ wl.hasEmailArrived =>
            /\ log[Len(log)].t = "aret" /\ log[Len(log)].op = "fetch"
            /\ log[Len(log)].x = RetCode(fres)
            /\ fres.kind = "value" =>
                   /\ Len(fres.val) = 1
                   /\ fres.val[1].mail_id = wl.found[1].mail_id)
    /\ [][(fop.op = "wait" /\ pc = "ret" /\ aop = "fetch") =>
              (pc' = "done" /\ fres' = ares)]_vars

\* a match was found, the request of the fetch did not complete, and the
\* call returned undefined
C28_Witness ==
    /\ WaitDone
    /\ wl.hasEmailArrived
    /\ wl.found # <<>>
    /\ fres.kind = "undefined"
    /\ log[Len(log) - 1].t = "herr" /\ log[Len(log) - 1].op = "fetch"

\* C21: while the caller invokes the operations of a facade one at a time,
\* at most one upstream HTTP request of that facade is in flight at any
\* moment: a request is issued only when every earlier one has completed,
\* and the running call is suspended on the one in flight.
C21_OneRequestInFlight ==
    /\ inFlight \in {0, 1}
    /\ inFlight = 1 <=> pc = "http"
    /\ pc = "http" => http # NoReq /\ log[Len(log)].t = "http"

\* the second request of a DeveloperMail listing is in flight, in the second
\* iteration of a waitForEmail
C21_Witness ==
    /\ fop.op = "wait"
    /\ wl.listings >= 2
    /\ pc = "http" /\ http.kind = "msgs"
    /\ inFlight = 1

\* C25: if a listing request issued by waitForEmail never completes,
\* waitForEmail never returns: while the request is pending no step ends
\* the call, re-evaluates the loop condition or changes elapsed, whatever
\* the limit; elapsed is changed only by the end of a sleep of the loop,
\* never by a step that spends time in a network call.
C25_PendingListingBlocks ==
    /\ [](hung => /\ fop.op = "wait" /\ aop \in {"list", "fetch"}
                  /\ pc = "http"
                  /\ inFlight = 1)
    /\ [][/\ hung => /\ hung'
                     /\ pc' = "http"
                     /\ <<fop, wl, fres, nCalls, log>>' = <<fop, wl, fres, nCalls, log>>
          /\ (fop.op = "wait" /\ pc \in {"http", "gsleep", "ret"}) =>
                 wl'.elapsedTime = wl.elapsedTime]_vars

\* the second listing of a call whose limit leaves room for one listing
\* only after the first sleep is pending for good
C25_Witness ==
    /\ hung
    /\ fop.op = "wait" /\ aop = "list"
    /\ wl.listings >= 2
    /\ wl.elapsedTime < wl.maxLimitInMs
    /\ wl.elapsedTime + PollStep >= wl.maxLimitInMs

\* C26: when every HTTP request and every sleep eventually completes, every
\* waitForEmail call with a finite limit eventually terminates, and only by
\* a match found, by the timeout reached, or by a failure raised from a
\* listing or from the re-fetch; every GuerrillaMail sendRequest eventually
\* returns.
C26_WaitTerminates ==
    /\ (fop.op = "wait") ~> (pc = "done")
    /\ (pc \in {"http", "gsleep"} /\ http.p = "GUERRILLA") ~> (pc = "ret")
    /\ [](WaitDone =>
            \/ /\ wl.hasEmailArrived
               /\ log[Len(log)].t = "aret" /\ log[Len(log)].op = "fetch"
            \/ /\ ~wl.hasEmailArrived
               /\ wl.elapsedTime >= wl.maxLimitInMs
               /\ fres.kind = "undefined"
            \/ /\ ~wl.hasEmailArrived
               /\ fres.kind = "raise"
               /\ log[Len(log)].t = "aret" /\ log[Len(log)].op = "list"
               /\ log[Len(log)].x = -1)

\* a call that slept, met 502 answers on the way and has terminated
C26_Witness ==
    /\ WaitDone
    /\ LoopSleeps # {}
    /\ Gateway502s(log) >= 2

\* C23: the adapter waitForEmail works on is read from the facade at every
\* step and nothing synchronises it with a concurrent createEmailAddress:
\* every listing, sleep and fetch of a waitForEmail call goes to the
\* provider that is active at that moment, so when a concurrent creation
\* fails over between two steps, the call lists the mailbox of one provider
\* and then sleeps on, or fetches the matched id from, the other.
C23_ActiveReadAtEachStep ==
    [][(fop'.op = "wait" /\ Len(log') > Len(log)) =>
           \A i \in (Len(log) + 1)..Len(log') :
               log'[i].t \in {"acall", "sleep", "match"} /\ log'[i].op # "sendRequest"
                   => log'[i].p = active]_vars

\* a call that listed one provider's mailbox, found a match there, and
\* issued the fetch of the matched id to the other provider, to which a
\* concurrent createEmailAddress had failed over
C23_Witness ==
    /\ fop.op = "wait"
    /\ cc.attempt = 2
    /\ \E i \in Listings, j \in Fetches, m \in Positions("match") :
           /\ i < m /\ m < j
           /\ log[m - 1].t = "aret" /\ log[m - 1].p = log[i].p
           /\ log[j].p # log[i].p

\* C29: in every reachable state of a DeveloperMail adapter, token and
\* mailboxName are either both empty or both taken from the same upstream
\* creation response, also while several createEmailAddress calls on that
\* adapter overlap.
C29_TokenNamePaired ==
    /\ (token = 0) <=> (mailboxName = 0)
    /\ token # 0 =>
          /\ mailboxName = token
          /\ token \in 1..upSession["DEVELOPER"]

\* two createEmailAddress calls overlap on the DeveloperMail adapter: the
\* request of the first caller is still in flight, that of the second has
\* been answered and its credentials are stored
C29_Witness ==
    /\ era = "current"
    /\ fop.op = "create"
    /\ pc = "http" /\ http.p = "DEVELOPER" /\ http.kind = "create"
    /\ cc.pc \in {"ret", "done"}
    /\ Truthy(cc.res)
    /\ token = upSession["DEVELOPER"]
    /\ token # http.tok

\* C30: in every DeveloperMail fetchEmailList call, the id-list request and
\* the message-bodies request address the same mailbox name and carry the
\* same token, even when a createEmailAddress on the same adapter completes
\* between the two requests.
C30_ListRequestsSameMailbox ==
    [][(pc = "http" /\ http.p = "DEVELOPER" /\ http.kind \in {"ids", "answered"}
        /\ pc' = "http" /\ http'.kind = "msgs") =>
           /\ http'.name = http.name
           /\ http'.tok = http.tok]_vars


\* C30 (amended): the message-bodies request of a DeveloperMail
\* fetchEmailList is built from the adapter's mailbox name and token as they
\* are when the id-list response has arrived: they are those of the id-list
\* request when no createEmailAddress on that adapter completed in between,
\* and those of the newly created mailbox when one did.
C30_ListRequestsCurrentCredentials ==
    [][(pc = "http" /\ http.p = "DEVELOPER" /\ http.kind \in {"ids", "answered"}
        /\ pc' = "http" /\ http'.kind = "msgs") =>
           /\ http'.name = mailboxName
           /\ http'.tok = token
           /\ (token = http.tok /\ mailboxName = http.name) =>
                  (http'.name = http.name /\ http'.tok = http.tok)
           /\ cc.pc \in {"idle", "http", "gsleep"} /\ cc.attempt <= 1 =>
                  (http'.name = http.name /\ http'.tok = http.tok)]_vars

\* a fetchEmailList whose id-list request went to the first mailbox and whose
\* message-bodies request, in flight, goes to the mailbox that the second
\* caller's createEmailAddress created in between
C30_Witness ==
    /\ fop.op = "list"
    /\ pc = "http" /\ http.p = "DEVELOPER" /\ http.kind = "msgs"
    /\ cc.pc \in {"ret", "done"} /\ Truthy(cc.res)
    /\ http.tok = 2 /\ http.name = 2
    /\ token = 2

\* the session state of facade A and of facade B
SessionA == <<active, token, mailboxName, sidToken>>
SessionB == <<other.active, other.token, other.mailboxName, other.sidToken>>

====
